---- MODULE Spec2Model ----
(***************************************************************************)
(* Model of Evaluation/generation_eval.py: the asyncio driver that         *)
(* evaluates four question-type groups in sequence (main), fans out one    *)
(* evaluate_sample task per sample (evaluate_dataset), and inside each     *)
(* sample gathers the requested metric computations (evaluate_sample).     *)
(*                                                                         *)
(* The metric computers (compute_rouge_score, ...) live in .metrics and    *)
(* are external: a pending computation completes with a score, with NaN,   *)
(* with a non-numeric value, or by raising; or it never completes.         *)
(***************************************************************************)
EXTENDS Integers, Sequences, FiniteSets, TLC

\* ------------------------------------------------------------------ bounds

\* Most samples in one question-type group of the input file.
MaxSamples == 3

\* Most metric computations in one run (samples times requested metrics,
\* summed over the groups).
MaxComputations == 4

\* Significant bits of a float's mantissa (a double has 53): every float
\* operation rounds its exact result to this many bits, ties to even.
MantissaBits == 3

\* ------------------------------------------------------- values and scores

\* A float (or a non-float object) as a tagged fraction num/den in lowest
\* terms, den a power of two.
Num(n) == [kind |-> "num", num |-> n, den |-> 1]
Eighth == [kind |-> "num", num |-> 1, den |-> 8]
NaN == [kind |-> "nan", num |-> 0, den |-> 1]
NonNumeric == [kind |-> "other", num |-> 0, den |-> 1]
NoScore == [kind |-> "unset", num |-> 0, den |-> 1]

\* What a metric computer may return: a score (0 is a genuine score), NaN,
\* or an object that is not a number.
Scores == {Num(0), Eighth, Num(1), NaN, NonNumeric}

RECURSIVE GCD(_, _)
GCD(a, b) == IF b = 0 THEN a ELSE GCD(b, a % b)

Fraction(n, d) == LET g == GCD(n, d) IN [kind |-> "num", num |-> n \div g, den |-> d \div g]

\* The float nearest to n/d * 2^(down - up), for n >= 0 and d > 0: n/d is
\* brought into [2^(MantissaBits-1), 2^MantissaBits) by doubling n or d and
\* rounded to an integer mantissa, a tie going to the even one.
RECURSIVE RoundScaled(_, _, _, _)
RoundScaled(n, d, up, down) ==
    IF n = 0 THEN Num(0)
    ELSE IF n < (2 ^ (MantissaBits - 1)) * d THEN RoundScaled(2 * n, d, up + 1, down)
    ELSE IF n >= (2 ^ MantissaBits) * d THEN RoundScaled(n, 2 * d, up, down + 1)
    ELSE LET q == n \div d
             r == n % d
             m == IF 2 * r < d \/ (2 * r = d /\ q % 2 = 0) THEN q ELSE q + 1
         IN Fraction(m * (2 ^ down), 2 ^ up)

RoundFloat(n, d) == RoundScaled(n, d, 0, 0)

\* Float addition and division by a count, each correctly rounded.
FloatAdd(a, b) == RoundFloat(a.num * b.den + b.num * a.den, a.den * b.den)
FloatDiv(a, n) == RoundFloat(a.num, a.den * n)

\* ------------------------------------------------------------ configuration

MetricNames == {"rouge_score", "answer_correctness", "coverage_score", "faithfulness"}

\* The order in which evaluate_sample fills its tasks dict.
TaskOrder == <<"rouge_score", "answer_correctness", "coverage_score", "faithfulness">>

\* The computers that call the judge model.
JudgeMetrics == {"answer_correctness", "coverage_score", "faithfulness"}

QuestionTypes == <<"type1", "type2", "type3", "type4">>

metric_config_type3_as_type4 ==
    [type1 |-> {"rouge_score", "answer_correctness"},
     type2 |-> {"rouge_score", "answer_correctness"},
     type3 |-> {"answer_correctness", "coverage_score", "faithfulness"},
     type4 |-> {"answer_correctness", "coverage_score", "faithfulness"}]

metric_config ==
    [type1 |-> {"rouge_score", "answer_correctness"},
     type2 |-> {"rouge_score", "answer_correctness"},
     type3 |-> {"answer_correctness", "coverage_score"},
     type4 |-> {"answer_correctness", "coverage_score", "faithfulness"}]

\* --------------------------------------------------------------- variables

VARIABLES
    env,          \* the run's inputs: environment, arguments, input file
    pc,           \* main's position
    qi,           \* index in QuestionTypes of main's loop
    llm,          \* TRUE once the model clients are constructed
    file_opened,  \* TRUE once the input file has been opened
    all_results,  \* main's all_results, in insertion order
    output,       \* the writes of the output file, each the content written
    summary,      \* TRUE once the final summary is printed
    error,        \* the exception that ended main, "none" while there is none
    ds,           \* the frame of the running evaluate_dataset call
    samples       \* the evaluate_sample tasks that exist, by <<call, index>>

vars == <<env, pc, qi, llm, file_opened, all_results, output, summary, error, ds, samples>>
mainVars == <<env, pc, qi, llm, file_opened, all_results, output, summary, error>>

\* ------------------------------------------------------ evaluate_sample

\* tasks.keys(): the computers evaluate_sample calls for a metric list.
RequestedTasksAlwaysRouge(metrics) ==
    SelectSeq(TaskOrder, LAMBDA m : m \in metrics \/ m = "rouge_score")

RequestedTasks(metrics) == SelectSeq(TaskOrder, LAMBDA m : m \in metrics)

Range(s) == {s[i] : i \in 1..Len(s)}

IdleMetric == [st |-> "idle", score |-> NoScore]
PendingMetric == [st |-> "pending", score |-> NoScore]
RaisedMetric == [st |-> "raised", score |-> NoScore]
DoneMetric(v) == [st |-> "done", score |-> v]

\* asyncio.gather(*tasks.values()): it raises as soon as one child has raised,
\* and returns the children's results, in the order given, once all are done.
GatherRaises(mt, keys) == \E i \in 1..Len(keys) : mt[keys[i]].st = "raised"

GatherReturnsOnFirst(mt, keys) ==
    \/ keys = <<>>
    \/ \E i \in 1..Len(keys) : mt[keys[i]].st = "done"

GatherReturns(mt, keys) == \A i \in 1..Len(keys) : mt[keys[i]].st = "done"

GatherResult(mt, keys) == [i \in 1..Len(keys) |-> mt[keys[i]].score]

\* results[metric] = task_results[i] for i, metric in enumerate(tasks.keys())
SampleResults(keys, task_results) ==
    [m \in Range(keys) |-> task_results[CHOOSE i \in 1..Len(keys) : keys[i] = m]]

\* A coroutine object evaluate_dataset creates, wrapped in a task by as_completed.
NewTask(metrics) ==
    [st |-> "scheduled",
     metrics |-> metrics,
     starts |-> 0,
     mt |-> [m \in MetricNames |-> IdleMetric],
     calls |-> [m \in MetricNames |-> 0],
     finished |-> <<>>,
     result |-> <<>>]

\* ------------------------------------------------------ evaluate_dataset

IdleFrame ==
    [pc |-> "idle", call |-> 0, metrics |-> {}, total_samples |-> 0, tasks |-> {},
     doneQ |-> <<>>, sample_results |-> <<>>, collected |-> <<>>,
     progress |-> <<>>, ret |-> <<>>]

\* for i in range(total_samples)
TaskIndicesSkipLast(n) == 1..(n - 1)

TaskIndices(n) == 1..n

\* The condition under which a score enters results[metric].
IsNumberInstance(score) == score.kind \in {"num", "nan"}
IsNaN(score) == score.kind = "nan"

KeepScoreTruthy(score) == IsNumberInstance(score) /\ ~IsNaN(score) /\ score.num # 0

KeepScore(score) == IsNumberInstance(score) /\ ~IsNaN(score)

\* results[metric] after the aggregation loop over sample_results.
RECURSIVE MetricScoresLastWins(_, _)
MetricScoresLastWins(sample_results, metric) ==
    IF sample_results = <<>> THEN <<>>
    ELSE LET sample == Head(sample_results)
             rest == MetricScoresLastWins(Tail(sample_results), metric)
         IN IF rest # <<>> THEN rest
            ELSE IF metric \in DOMAIN sample /\ KeepScore(sample[metric])
                 THEN <<sample[metric]>>
                 ELSE <<>>

RECURSIVE MetricScores(_, _)
MetricScores(sample_results, metric) ==
    IF sample_results = <<>> THEN <<>>
    ELSE LET sample == Head(sample_results)
             rest == MetricScores(Tail(sample_results), metric)
         IN IF metric \in DOMAIN sample /\ KeepScore(sample[metric])
            THEN <<sample[metric]>> \o rest
            ELSE rest

\* np.add.reduce over a short array: the elements are added to the
\* accumulator one by one, in the array's order.
RECURSIVE SumFrom(_, _)
SumFrom(acc, scores) ==
    IF scores = <<>> THEN acc ELSE SumFrom(FloatAdd(acc, Head(scores)), Tail(scores))

SumScores(scores) == SumFrom(Num(0), scores)

\* np.nanmean: the mean of the entries that are not NaN; NaN (and a warning,
\* no exception) for an empty slice.
NanMeanZeroOnEmpty(scores) ==
    LET kept == SelectSeq(scores, LAMBDA s : ~IsNaN(s))
    IN IF kept = <<>> THEN Num(0) ELSE FloatDiv(SumScores(kept), Len(kept))

NanMean(scores) ==
    LET kept == SelectSeq(scores, LAMBDA s : ~IsNaN(s))
    IN IF kept = <<>> THEN NaN ELSE FloatDiv(SumScores(kept), Len(kept))

\* The returned dict comprehension over results.items().
Aggregate(metrics, sample_results) ==
    [m \in metrics |-> NanMean(MetricScores(sample_results, m))]

\* The progress line printed after the loop's i-th await (i counted from 0):
\* completed count, total, and the percentage in tenths.
ProgressLineFromZero(i, total) ==
    [done |-> i, total |-> total, pct |-> (i * 1000) \div total]

ProgressLine(i, total) ==
    [done |-> i + 1, total |-> total, pct |-> ((i + 1) * 1000) \div total]

\* The as_completed loop has consumed every task it was given.
LoopDone(d) == Len(d.sample_results) = Cardinality(d.tasks)

\* The tasks of the pool still referenced: everything not yet collected.
Uncollected == {t \in DOMAIN samples : samples[t].st # "collected"}

\* The call of evaluate_dataset up to its first await: the results dict, the
\* coroutine list, and as_completed wrapping every coroutine in a task.
EvaluateDatasetCall(call, n, metrics) ==
    LET new == {<<call, i>> : i \in TaskIndices(n)}
    IN /\ ds' = [IdleFrame EXCEPT !.pc = "collect", !.call = call,
                                  !.metrics = metrics, !.total_samples = n,
                                  !.tasks = new]
       /\ samples' = [t \in Uncollected \cup new |->
                        IF t \in new THEN NewTask(metrics) ELSE samples[t]]

\* A task's first step: evaluate_sample runs to its await of gather, calling
\* the requested computers and scheduling them.
SampleStartOneAtATime(t) ==
    /\ ds.pc = "collect"
    /\ t \in DOMAIN samples
    /\ samples[t].st = "scheduled"
    /\ \A u \in DOMAIN samples : samples[u].st # "running"
    /\ LET keys == RequestedTasks(samples[t].metrics)
       IN samples' = [samples EXCEPT
            ![t].st = "running",
            ![t].starts = @ + 1,
            ![t].mt = [m \in MetricNames |->
                         IF m \in Range(keys) THEN PendingMetric ELSE @[m]],
            ![t].calls = [m \in MetricNames |->
                         IF m \in Range(keys) THEN @[m] + 1 ELSE @[m]]]
    /\ UNCHANGED <<ds, mainVars>>

SampleStart(t) ==
    /\ ds.pc = "collect"
    /\ t \in DOMAIN samples
    /\ samples[t].st = "scheduled"
    /\ LET keys == RequestedTasks(samples[t].metrics)
       IN samples' = [samples EXCEPT
            ![t].st = "running",
            ![t].starts = @ + 1,
            ![t].mt = [m \in MetricNames |->
                         IF m \in Range(keys) THEN PendingMetric ELSE @[m]],
            ![t].calls = [m \in MetricNames |->
                         IF m \in Range(keys) THEN @[m] + 1 ELSE @[m]]]
    /\ UNCHANGED <<ds, mainVars>>

\* A metric computation returns a value; finished keeps the order in which
\* the sample's computations completed.
MetricReturns(t, m, v) ==
    /\ ds.pc = "collect"
    /\ t \in DOMAIN samples
    /\ samples[t].mt[m].st = "pending"
    /\ samples' = [samples EXCEPT ![t].mt[m] = DoneMetric(v),
                                  ![t].finished = Append(@, m)]
    /\ UNCHANGED <<ds, mainVars>>

\* A metric computation raises.
MetricRaises(t, m) ==
    /\ ds.pc = "collect"
    /\ t \in DOMAIN samples
    /\ samples[t].mt[m].st = "pending"
    /\ samples' = [samples EXCEPT ![t].mt[m] = RaisedMetric]
    /\ UNCHANGED <<ds, mainVars>>

\* evaluate_sample resumes from gather and returns its mapping; the finished
\* task joins as_completed's queue of done futures.
SampleReturnsUnnoticed(t) ==
    /\ ds.pc = "collect"
    /\ t \in DOMAIN samples
    /\ samples[t].st = "running"
    /\ LET keys == RequestedTasks(samples[t].metrics)
       IN /\ ~GatherRaises(samples[t].mt, keys)
          /\ GatherReturns(samples[t].mt, keys)
          /\ samples' = [samples EXCEPT
                ![t].st = "returned",
                ![t].result = SampleResults(keys, GatherResult(samples[t].mt, keys))]
    /\ ds' = [ds EXCEPT !.doneQ = IF @ = <<>> THEN Append(@, t) ELSE @]
    /\ UNCHANGED mainVars

SampleReturnsInCompletionOrder(t) ==
    /\ ds.pc = "collect"
    /\ t \in DOMAIN samples
    /\ samples[t].st = "running"
    /\ LET keys == RequestedTasks(samples[t].metrics)
       IN /\ ~GatherRaises(samples[t].mt, keys)
          /\ GatherReturns(samples[t].mt, keys)
          /\ samples' = [samples EXCEPT
                ![t].st = "returned",
                ![t].result = SampleResults(keys,
                                 GatherResult(samples[t].mt, samples[t].finished))]
    /\ ds' = [ds EXCEPT !.doneQ = Append(@, t)]
    /\ UNCHANGED mainVars

SampleReturns(t) ==
    /\ ds.pc = "collect"
    /\ t \in DOMAIN samples
    /\ samples[t].st = "running"
    /\ LET keys == RequestedTasks(samples[t].metrics)
       IN /\ ~GatherRaises(samples[t].mt, keys)
          /\ GatherReturns(samples[t].mt, keys)
          /\ samples' = [samples EXCEPT
                ![t].st = "returned",
                ![t].result = SampleResults(keys, GatherResult(samples[t].mt, keys))]
    /\ ds' = [ds EXCEPT !.doneQ = Append(@, t)]
    /\ UNCHANGED mainVars

\* gather raises into evaluate_sample, which has no handler: the task ends
\* with the exception and joins the queue of done futures.
SampleRaises(t) ==
    /\ ds.pc = "collect"
    /\ t \in DOMAIN samples
    /\ samples[t].st = "running"
    /\ GatherRaises(samples[t].mt, RequestedTasks(samples[t].metrics))
    /\ samples' = [samples EXCEPT ![t].st = "raised"]
    /\ ds' = [ds EXCEPT !.doneQ = Append(@, t)]
    /\ UNCHANGED mainVars

\* One iteration of the as_completed loop whose await returns a result.
Collect ==
    /\ ds.pc = "collect"
    /\ ~LoopDone(ds)
    /\ ds.doneQ # <<>>
    /\ LET t == Head(ds.doneQ)
       IN /\ samples[t].st = "returned"
          /\ ds' = [ds EXCEPT
                !.doneQ = Tail(@),
                !.sample_results = Append(@, samples[t].result),
                !.collected = Append(@, t),
                !.progress = Append(@, ProgressLine(Len(ds.sample_results),
                                                    ds.total_samples))]
          /\ samples' = [samples EXCEPT ![t].st = "collected"]
    /\ UNCHANGED mainVars

\* One iteration of the as_completed loop whose await raises: the exception
\* leaves evaluate_dataset.
CollectRaisesAsUndefined ==
    /\ ds.pc = "collect"
    /\ ~LoopDone(ds)
    /\ ds.doneQ # <<>>
    /\ LET t == Head(ds.doneQ)
       IN /\ samples[t].st = "raised"
          /\ ds' = [ds EXCEPT
                !.doneQ = Tail(@),
                !.sample_results = Append(@, [m \in samples[t].metrics |-> NaN]),
                !.collected = Append(@, t),
                !.progress = Append(@, ProgressLine(Len(ds.sample_results),
                                                    ds.total_samples))]
          /\ samples' = [samples EXCEPT ![t].st = "collected"]
    /\ UNCHANGED mainVars

CollectRaises ==
    /\ ds.pc = "collect"
    /\ ~LoopDone(ds)
    /\ ds.doneQ # <<>>
    /\ samples[Head(ds.doneQ)].st = "raised"
    /\ ds' = [ds EXCEPT !.pc = "raised", !.doneQ = Tail(@)]
    /\ UNCHANGED <<samples, mainVars>>

\* The aggregation after the loop, and the return.
AggregateAndReturn ==
    /\ ds.pc = "collect"
    /\ LoopDone(ds)
    /\ ds' = [ds EXCEPT !.pc = "returned",
                        !.ret = Aggregate(ds.metrics, ds.sample_results)]
    /\ UNCHANGED <<samples, mainVars>>

\* ------------------------------------- evaluate_dataset called on its own

\* A caller hands evaluate_dataset any metric list and any dataset.
DatasetInit ==
    /\ env = [api_key |-> TRUE, file_ok |-> TRUE, output_file |-> FALSE,
              file_data |-> [g \in 1..Len(QuestionTypes) |-> [present |-> FALSE, n |-> 0]]]
    /\ pc = "caller"
    /\ qi = 1
    /\ llm = TRUE
    /\ file_opened = FALSE
    /\ all_results = <<>>
    /\ output = <<>>
    /\ summary = FALSE
    /\ error = "none"
    /\ ds = IdleFrame
    /\ samples = <<>>

DatasetCall ==
    /\ ds.pc = "idle"
    /\ \E n \in 0..MaxSamples, metrics \in SUBSET MetricNames :
          /\ n * Cardinality(metrics) <= MaxComputations
          /\ EvaluateDatasetCall(1, n, metrics)
    /\ UNCHANGED mainVars

DatasetNext ==
    \/ DatasetCall
    \/ \E t \in DOMAIN samples : SampleStart(t)
    \/ \E t \in DOMAIN samples, m \in MetricNames, v \in Scores : MetricReturns(t, m, v)
    \/ \E t \in DOMAIN samples, m \in MetricNames : MetricRaises(t, m)
    \/ \E t \in DOMAIN samples : SampleReturns(t)
    \/ \E t \in DOMAIN samples : SampleRaises(t)
    \/ Collect
    \/ CollectRaises
    \/ AggregateAndReturn

SpecDataset == DatasetInit /\ [][DatasetNext]_vars

\* -------------------------------------------------------------------- main

NumTypes == Len(QuestionTypes)

\* The metric computations a run over an input file starts at most.
RECURSIVE Computations(_, _)
Computations(file_data, g) ==
    IF g = 0 THEN 0
    ELSE Computations(file_data, g - 1)
         + file_data[g].n * Cardinality(metric_config[QuestionTypes[g]])

\* The input files: per question type, the key is missing (or an item lacks
\* a field), or it holds n items.
FileDatas ==
    {fd \in [1..NumTypes -> {[present |-> FALSE, n |-> 0]}
                            \cup {[present |-> TRUE, n |-> n] : n \in 0..MaxSamples}] :
        Computations(fd, NumTypes) <= MaxComputations}

Init ==
    /\ env \in [api_key : BOOLEAN, file_ok : BOOLEAN, output_file : BOOLEAN,
                file_data : FileDatas]
    /\ pc = "check_key"
    /\ qi = 1
    /\ llm = FALSE
    /\ file_opened = FALSE
    /\ all_results = <<>>
    /\ output = <<>>
    /\ summary = FALSE
    /\ error = "none"
    /\ ds = IdleFrame
    /\ samples = <<>>

dsVars == <<ds, samples>>

\* if not os.getenv("OPENAI_API_KEY"): raise ValueError
CheckKeyAfterModels ==
    /\ pc = "check_key"
    /\ llm' = TRUE
    /\ IF env.api_key
       THEN pc' = "load" /\ error' = error
       ELSE pc' = "failed" /\ error' = "ValueError"
    /\ UNCHANGED <<env, qi, file_opened, all_results, output, summary, dsVars>>

CheckKey ==
    /\ pc = "check_key"
    /\ IF env.api_key
       THEN pc' = "init_models" /\ error' = error
       ELSE pc' = "failed" /\ error' = "ValueError"
    /\ UNCHANGED <<env, qi, llm, file_opened, all_results, output, summary, dsVars>>

\* ChatOpenAI(...), HuggingFaceBgeEmbeddings(...), LangchainEmbeddingsWrapper(...)
InitModels ==
    /\ pc = "init_models"
    /\ llm' = TRUE
    /\ pc' = "load"
    /\ UNCHANGED <<env, qi, file_opened, all_results, output, summary, error, dsVars>>

\* open(args.data_file) and json.load
LoadData ==
    /\ pc = "load"
    /\ file_opened' = TRUE
    /\ IF env.file_ok
       THEN pc' = "loop" /\ error' = error
       ELSE pc' = "failed" /\ error' = "OSError"
    /\ UNCHANGED <<env, qi, llm, all_results, output, summary, dsVars>>

\* The head of a loop iteration: the four lookups in file_data, the dataset,
\* and the call of evaluate_dataset with the type's configured metrics.
EvaluateTypeWithoutWaiting ==
    LET g == IF pc = "await_eval" THEN qi + 1 ELSE qi
    IN /\ pc \in {"loop", "await_eval"}
       /\ g <= NumTypes
       /\ qi' = g
       /\ IF env.file_data[g].present
          THEN /\ pc' = "await_eval"
               /\ error' = error
               /\ EvaluateDatasetCall(g, env.file_data[g].n,
                                      metric_config[QuestionTypes[g]])
          ELSE /\ pc' = "failed"
               /\ error' = "KeyError"
               /\ UNCHANGED dsVars
       /\ UNCHANGED <<env, llm, file_opened, all_results, output, summary>>

EvaluateType ==
    /\ pc = "loop"
    /\ qi <= NumTypes
    /\ IF env.file_data[qi].present
       THEN /\ pc' = "await_eval"
            /\ error' = error
            /\ EvaluateDatasetCall(qi, env.file_data[qi].n,
                                   metric_config[QuestionTypes[qi]])
       ELSE /\ pc' = "failed"
            /\ error' = "KeyError"
            /\ UNCHANGED dsVars
    /\ UNCHANGED <<env, qi, llm, file_opened, all_results, output, summary>>

\* json.dump(all_results, f, indent=2)
WriteOutput(content) == Append(output, content)

\* evaluate_dataset returned: all_results[question_type] = results, the
\* per-metric prints, and the loop's step.
StoreResultsAndSave ==
    /\ pc = "await_eval"
    /\ ds.pc = "returned"
    /\ all_results' = Append(all_results,
                             [qtype |-> QuestionTypes[qi], results |-> ds.ret])
    /\ output' = IF env.output_file THEN WriteOutput(all_results') ELSE output
    /\ qi' = qi + 1
    /\ pc' = IF qi = NumTypes THEN "save" ELSE "loop"
    /\ ds' = IdleFrame
    /\ samples' = [t \in Uncollected |-> samples[t]]
    /\ UNCHANGED <<env, llm, file_opened, summary, error>>

StoreResults ==
    /\ pc = "await_eval"
    /\ ds.pc = "returned"
    /\ all_results' = Append(all_results,
                             [qtype |-> QuestionTypes[qi], results |-> ds.ret])
    /\ qi' = qi + 1
    /\ pc' = IF qi = NumTypes THEN "save" ELSE "loop"
    /\ ds' = IdleFrame
    /\ samples' = [t \in Uncollected |-> samples[t]]
    /\ UNCHANGED <<env, llm, file_opened, output, summary, error>>

\* evaluate_dataset raised: main has no handler, the exception ends the run
\* (asyncio.run cancels what is still pending).
EvaluationFailed ==
    /\ pc = "await_eval"
    /\ ds.pc = "raised"
    /\ pc' = "failed"
    /\ error' = "MetricError"
    /\ UNCHANGED <<env, qi, llm, file_opened, all_results, output, summary, dsVars>>

\* if args.output_file: json.dump(all_results, f, indent=2)
SaveResultsUnconditionally ==
    /\ pc = "save"
    /\ output' = WriteOutput(all_results)
    /\ pc' = "summary"
    /\ UNCHANGED <<env, qi, llm, file_opened, all_results, summary, error, dsVars>>

SaveResults ==
    /\ pc = "save"
    /\ output' = IF env.output_file THEN WriteOutput(all_results) ELSE output
    /\ pc' = "summary"
    /\ UNCHANGED <<env, qi, llm, file_opened, all_results, summary, error, dsVars>>

\* The final summary.
PrintSummary ==
    /\ pc = "summary"
    /\ summary' = TRUE
    /\ pc' = "done"
    /\ UNCHANGED <<env, qi, llm, file_opened, all_results, output, error, dsVars>>

Next ==
    \/ CheckKey
    \/ InitModels
    \/ LoadData
    \/ EvaluateType
    \/ \E t \in DOMAIN samples : SampleStart(t)
    \/ \E t \in DOMAIN samples, m \in MetricNames, v \in Scores : MetricReturns(t, m, v)
    \/ \E t \in DOMAIN samples, m \in MetricNames : MetricRaises(t, m)
    \/ \E t \in DOMAIN samples : SampleReturns(t)
    \/ \E t \in DOMAIN samples : SampleRaises(t)
    \/ Collect
    \/ CollectRaises
    \/ AggregateAndReturn
    \/ StoreResults
    \/ EvaluationFailed
    \/ SaveResults
    \/ PrintSummary

Spec == Init /\ [][Next]_vars

\* ---------------------------------------------------------------- fairness

\* The steps the event loop takes on its own: a ready task or a resumed
\* coroutine runs, main goes on.
LoopStep ==
    \/ CheckKey
    \/ InitModels
    \/ LoadData
    \/ EvaluateType
    \/ \E t \in DOMAIN samples : SampleStart(t)
    \/ \E t \in DOMAIN samples : SampleReturns(t)
    \/ \E t \in DOMAIN samples : SampleRaises(t)
    \/ Collect
    \/ CollectRaises
    \/ AggregateAndReturn
    \/ StoreResults
    \/ EvaluationFailed
    \/ SaveResults
    \/ PrintSummary

\* The scores of the runs checked for liveness: no guard of the orchestration
\* reads a score, so a real score and the undefined one stand for all.
LiveScores == {Num(1), NaN}

\* A pending metric computation completes, by returning or by raising.
MetricCompletes ==
    \/ \E t \in DOMAIN samples, m \in MetricNames, v \in LiveScores : MetricReturns(t, m, v)
    \/ \E t \in DOMAIN samples, m \in MetricNames : MetricRaises(t, m)

\* The runs that reach the evaluation loop: the key is set, the file loads
\* and holds the four question types.
LiveInit ==
    /\ Init
    /\ env.api_key
    /\ env.file_ok
    /\ env.output_file
    /\ \A g \in 1..NumTypes : env.file_data[g].present

LiveNext == LoopStep \/ MetricCompletes

\* The run under a fair event loop, with metric computations that complete.
LiveSpec ==
    LiveInit /\ [][LiveNext]_vars /\ WF_vars(LoopStep) /\ WF_vars(MetricCompletes)

\* ------------------------------------------------------------------ claims

Called(t) == {m \in MetricNames : samples[t].calls[m] > 0}

\* The tasks of the running call whose score for metric m is a real number.
RealScoreTasks(m) ==
    {t \in ds.tasks : /\ samples[t].mt[m].st = "done"
                      /\ samples[t].mt[m].score.kind = "num"}

\* The exact sum, as an unreduced fraction <<n, d>>, of the scores that the
\* tasks T have for metric m.
RECURSIVE SumOverTasks(_, _)
SumOverTasks(T, m) ==
    IF T = {} THEN <<0, 1>>
    ELSE LET t == CHOOSE x \in T : TRUE
             rest == SumOverTasks(T \ {t}, m)
             x == samples[t].mt[m].score
         IN <<x.num * rest[2] + rest[1] * x.den, x.den * rest[2]>>

\* The real-number scores for metric m of the collected tasks, in the order
\* of collection.
CollectedRealScores(m) ==
    SelectSeq([i \in 1..Len(ds.collected) |-> samples[ds.collected[i]].mt[m].score],
              LAMBDA x : x.kind = "num")

Abs(x) == IF x < 0 THEN -x ELSE x

\* C1: when evaluate_dataset has aggregated a group of N samples, exactly N
\* results were collected, one per sample index 1..N, each sample was started
\* exactly once, and at no time has a sample been started twice.
C1_FanOutComplete ==
    /\ \A t \in DOMAIN samples : samples[t].starts <= 1
    /\ ds.pc = "returned" =>
          /\ Len(ds.sample_results) = ds.total_samples
          /\ Len(ds.collected) = ds.total_samples
          /\ Range(ds.collected) = {<<ds.call, i>> : i \in 1..ds.total_samples}
          /\ \A i \in 1..ds.total_samples :
                /\ <<ds.call, i>> \in DOMAIN samples
                /\ samples[<<ds.call, i>>].starts = 1

\* C1 witness: two samples collected in the reverse of their submission order.
C1_Witness ==
    /\ ds.pc = "returned"
    /\ ds.total_samples = 2
    /\ ds.collected = <<<<ds.call, 2>>, <<ds.call, 1>>>>

\* C2: a started evaluate_sample has called exactly the computers of its
\* requested metric list, each once; before it starts it has called none;
\* the mapping it returns has exactly the requested keys; a rouge_score-only
\* request calls no computer that uses the judge model.
C2_ExactlyRequestedComputers ==
    \A t \in DOMAIN samples :
        LET s == samples[t]
        IN /\ s.metrics = ds.metrics
           /\ \A m \in MetricNames : s.calls[m] <= 1
           /\ s.st = "scheduled" => Called(t) = {}
           /\ s.st # "scheduled" => Called(t) = s.metrics
           /\ s.st \in {"returned", "collected"} => DOMAIN s.result = s.metrics
           /\ s.metrics = {"rouge_score"} => Called(t) \cap JudgeMetrics = {}

\* C2 witness: a sample asked for rouge_score alone has returned.
C2_Witness ==
    \E t \in DOMAIN samples :
        /\ samples[t].metrics = {"rouge_score"}
        /\ samples[t].st = "returned"
        /\ DOMAIN samples[t].result = {"rouge_score"}

\* C3: for every requested metric with at least one real-number score, the
\* aggregate is the mean of exactly the real-number scores of the group's
\* samples: NaN and non-numeric scores are left out of sum and count, a score
\* of 0 is counted. The aggregate is the float mean of those scores taken in
\* collection order, and it differs from their exact arithmetic mean by no
\* more than the rounding of the c float operations that compute it
\* (relative error at most (1 + 2^-MantissaBits)^c - 1 for c scores).
C3_MeanOfRealScores ==
    ds.pc = "returned" =>
        /\ DOMAIN ds.ret = ds.metrics
        /\ \A m \in ds.metrics :
              LET T == RealScoreTasks(m)
                  c == Cardinality(T)
                  S == SumOverTasks(T, m)
                  r == ds.ret[m]
                  one == 2 ^ (MantissaBits * c)
              IN T # {} =>
                    /\ r.kind = "num"
                    /\ r.den > 0
                    /\ Len(CollectedRealScores(m)) = c
                    /\ r = FloatDiv(SumScores(CollectedRealScores(m)), c)
                    /\ Abs(r.num * S[2] * c - S[1] * r.den) * one
                          <= ((2 ^ MantissaBits + 1) ^ c - one) * S[1] * r.den

\* C3 witness: in a group of two samples, one metric has the scores 1 and
\* NaN and aggregates to 1, another has the scores 0 and 1 and aggregates
\* to 1/2.
C3_Witness ==
    /\ ds.pc = "returned"
    /\ ds.total_samples = 2
    /\ \E m1, m2 \in ds.metrics :
          /\ samples[<<ds.call, 1>>].mt[m1].score = Num(1)
          /\ samples[<<ds.call, 2>>].mt[m1].score = NaN
          /\ ds.ret[m1] = Num(1)
          /\ samples[<<ds.call, 1>>].mt[m2].score = Num(0)
          /\ samples[<<ds.call, 2>>].mt[m2].score = Num(1)
          /\ ds.ret[m2] = [kind |-> "num", num |-> 1, den |-> 2]

\* C4: the returned mapping always has exactly the requested metrics as keys;
\* a metric without any real-number score (all undefined, or no samples)
\* aggregates to NaN, never to 0; evaluate_dataset raises only when a sample
\* evaluation raised, never from the aggregation.
C4_UndefinedAggregate ==
    /\ ds.pc = "returned" =>
          /\ DOMAIN ds.ret = ds.metrics
          /\ \A m \in ds.metrics :
                RealScoreTasks(m) = {} => ds.ret[m] = NaN /\ ds.ret[m] # Num(0)
    /\ ds.pc = "raised" => \E t \in ds.tasks : samples[t].st = "raised"

\* C4 witness: two samples whose scores for a metric are NaN and non-numeric.
C4_Witness ==
    /\ ds.pc = "returned"
    /\ ds.total_samples = 2
    /\ \E m \in ds.metrics :
          /\ samples[<<ds.call, 1>>].mt[m].score = NaN
          /\ samples[<<ds.call, 2>>].mt[m].score = NonNumeric
          /\ ds.ret[m] = NaN

\* C5: the mapping main uses is type1, type2 -> {rouge_score,
\* answer_correctness}, type3 -> {answer_correctness, coverage_score}, type4 ->
\* {answer_correctness, coverage_score, faithfulness}; every evaluate_dataset
\* call and every sample task of a group carries that group's own list, and
\* no computer outside it is called for a sample of the group.
C5_GroupMetricMapping ==
    LET claimed == [type1 |-> {"rouge_score", "answer_correctness"},
                    type2 |-> {"rouge_score", "answer_correctness"},
                    type3 |-> {"answer_correctness", "coverage_score"},
                    type4 |-> {"answer_correctness", "coverage_score", "faithfulness"}]
    IN /\ ds.pc # "idle" => ds.metrics = claimed[QuestionTypes[ds.call]]
       /\ \A t \in DOMAIN samples :
             /\ samples[t].metrics = claimed[QuestionTypes[t[1]]]
             /\ Called(t) \subseteq claimed[QuestionTypes[t[1]]]
       /\ \A j \in 1..Len(all_results) :
             DOMAIN all_results[j].results = claimed[all_results[j].qtype]

\* C5 witness: a type3 sample is collected after type1 and type2 were evaluated.
C5_Witness ==
    /\ Len(all_results) = 2
    /\ \E t \in DOMAIN samples :
          /\ t[1] = 3
          /\ samples[t].st = "collected"
          /\ Called(t) = {"answer_correctness", "coverage_score"}

\* C6: every sample task that exists belongs to the group main is at; while
\* tasks of group g exist, the aggregates of exactly the groups before g are
\* in the report, in the order type1..type4.
C6_GroupsSequential ==
    /\ \A t \in DOMAIN samples :
          /\ t[1] = qi
          /\ t[1] = ds.call
          /\ Len(all_results) = t[1] - 1
    /\ \A j \in 1..Len(all_results) : all_results[j].qtype = QuestionTypes[j]
    /\ Len(all_results) \in {qi - 1, qi}
    /\ Len(all_results) = qi => pc \in {"save", "summary", "done"}

\* C6 witness: a sample of type2 is running after type1's samples were evaluated.
C6_Witness ==
    /\ env.file_data[1].n >= 1
    /\ \E t \in DOMAIN samples : t[1] = 2 /\ samples[t].st = "running"

\* C7: the k-th progress notification reports k of N; there are as many
\* notifications as collected results; after a group of N samples has been
\* collected there are exactly N, the last one reporting N of N = 100%, and
\* none for N = 0.
C7_ProgressNotifications ==
    /\ Len(ds.progress) = Len(ds.sample_results)
    /\ \A k \in 1..Len(ds.progress) :
          /\ ds.progress[k].done = k
          /\ ds.progress[k].total = ds.total_samples
    /\ ds.pc = "returned" =>
          /\ Len(ds.progress) = ds.total_samples
          /\ ds.total_samples > 0 =>
                /\ ds.progress[ds.total_samples].done = ds.total_samples
                /\ ds.progress[ds.total_samples].pct = 1000

\* C7 witness: a group of two samples has returned with two notifications.
C7_Witness ==
    /\ ds.pc = "returned"
    /\ ds.total_samples = 2
    /\ Len(ds.progress) = 2

\* C8 as claimed: no evaluate_sample has finished, by returning or by
\* raising, while one of its metric computations is still pending.
C8_FinishedImpliesNonePending ==
    \A t \in DOMAIN samples :
        samples[t].st \in {"returned", "collected", "raised"} =>
            \A m \in MetricNames : samples[t].mt[m].st # "pending"

\* C8 amended: evaluate_sample starts all requested computations together,
\* and it has returned a mapping only when every one of them has completed
\* with a result; it raises only when one of them has raised (the others may
\* still be pending then).
C8_ReturnedImpliesAllDone ==
    \A t \in DOMAIN samples :
        LET s == samples[t]
        IN /\ s.st # "scheduled" => \A m \in s.metrics : s.mt[m].st # "idle"
           /\ s.st \in {"returned", "collected"} =>
                 \A m \in s.metrics : s.mt[m].st = "done"
           /\ s.st = "raised" => \E m \in s.metrics : s.mt[m].st = "raised"

\* C8 witness: a sample with two or more requested metrics has returned.
C8_Witness ==
    \E t \in DOMAIN samples :
        /\ samples[t].st = "returned"
        /\ Cardinality(samples[t].metrics) >= 2

\* C9: a sample one of whose metric computations raised is never given a
\* result (it is not collected, its failure is not turned into a score), is
\* not started again, and its group gets no aggregate and main goes to no
\* later group; a raised sample is handed to evaluate_dataset's loop, and a
\* raise of evaluate_dataset ends main.
C9_FailurePropagates ==
    /\ \A t \in DOMAIN samples :
          (\E m \in MetricNames : samples[t].mt[m].st = "raised") =>
              /\ samples[t].st \in {"running", "raised"}
              /\ t \notin Range(ds.collected)
              /\ samples[t].starts = 1
              /\ ds.pc \in {"collect", "raised"}
              /\ ds.call = t[1]
              /\ qi = t[1]
              /\ Len(all_results) < t[1]
              /\ pc \in {"await_eval", "failed"}
    /\ \A t \in DOMAIN samples :
          samples[t].st = "raised" => t \in Range(ds.doneQ) \/ ds.pc = "raised"
    /\ ds.pc = "raised" => pc \in {"await_eval", "failed"}
    /\ error = "MetricError" => pc = "failed" /\ ds.pc = "raised"

\* C9 witness: main has failed on a metric failure after an earlier group
\* was evaluated.
C9_Witness ==
    /\ pc = "failed"
    /\ error = "MetricError"
    /\ Len(all_results) >= 1

\* C10: a run that has failed has written no output file; the file is
\* written only after all four groups were evaluated without error.
C10_NoOutputOnFailure ==
    /\ pc = "failed" => output = <<>>
    /\ error # "none" => pc = "failed"
    /\ output # <<>> =>
          /\ pc \in {"summary", "done"}
          /\ Len(all_results) = NumTypes
          /\ error = "none"

\* C10 witness: with an output path configured, main fails in a later group
\* after an earlier group was evaluated.
C10_Witness ==
    /\ pc = "failed"
    /\ env.output_file
    /\ qi >= 2
    /\ Len(all_results) = qi - 1
    /\ error \in {"MetricError", "KeyError"}
    /\ output = <<>>

\* C11: while OPENAI_API_KEY is absent, no model client has been constructed,
\* the input file has not been opened, no evaluate_dataset call and no sample
\* task exists, nothing has been stored or written or summarised, and main
\* is either at its first step or has failed with the ValueError.
C11_CredentialCheckFirst ==
    ~env.api_key =>
        /\ llm = FALSE
        /\ file_opened = FALSE
        /\ ds = IdleFrame
        /\ samples = <<>>
        /\ all_results = <<>>
        /\ output = <<>>
        /\ summary = FALSE
        /\ pc \in {"check_key", "failed"}
        /\ pc = "failed" => error = "ValueError"
        /\ pc = "check_key" => error = "none"

\* C11 witness: main has failed on the absent key, with a readable input
\* file that holds samples and an output path configured.
C11_Witness ==
    /\ ~env.api_key
    /\ pc = "failed"
    /\ error = "ValueError"
    /\ env.file_ok
    /\ env.output_file
    /\ env.file_data[1].present /\ env.file_data[1].n >= 1

\* C12: from the first await of evaluate_dataset on, one task per sample
\* exists (all N were submitted before any result was awaited), and every
\* task that has not started yet can start whatever the state of the other
\* tasks: no start waits for another sample's completion and nothing caps
\* the number of samples in flight.
C12_FullFanOut ==
    ds.pc = "collect" =>
        /\ Cardinality(ds.tasks) = ds.total_samples
        /\ ds.tasks = {<<ds.call, i>> : i \in 1..ds.total_samples}
        /\ ds.tasks \subseteq DOMAIN samples
        /\ \A t \in ds.tasks :
              samples[t].st = "scheduled" => ENABLED SampleStart(t)

\* C12 witness: all samples of a group of MaxSamples are running at once,
\* their metric computations pending, before any result has been collected.
C12_Witness ==
    /\ ds.pc = "collect"
    /\ ds.total_samples = MaxSamples
    /\ ds.metrics # {}
    /\ ds.sample_results = <<>>
    /\ ds.doneQ = <<>>
    /\ \A t \in ds.tasks :
          /\ samples[t].st = "running"
          /\ \A m \in ds.metrics : samples[t].mt[m].st = "pending"

\* The orders in which n results can be collected, and a sequence reordered.
CollectionOrders(n) ==
    {p \in [1..n -> 1..n] : \A i, j \in 1..n : p[i] = p[j] => i = j}

Reorder(seq, p) == [i \in 1..Len(seq) |-> seq[p[i]]]

Occurrences(seq, x) == Cardinality({i \in 1..Len(seq) : seq[i] = x})

\* C13 as claimed: the aggregate mapping that evaluate_dataset returns is the
\* one it would return for every other order of collecting the same results.
C13_SameAggregateForEveryOrder ==
    ds.pc = "returned" =>
        \A p \in CollectionOrders(Len(ds.sample_results)) :
            Aggregate(ds.metrics, Reorder(ds.sample_results, p)) = ds.ret

\* C13 amended: for every other order of collecting the same results, the
\* aggregate mapping has the same keys, each metric's mean is taken over the
\* same scores (each score as often), so it is NaN in the one order exactly
\* if it is in the other; it is the same float when at most two scores enter
\* it, and otherwise the two floats differ by no more than the rounding of
\* their additions (each is within (1 + 2^-MantissaBits)^c - 1 of the exact
\* mean of the c scores).
C13_SameScoresForEveryOrder ==
    ds.pc = "returned" =>
        \A p \in CollectionOrders(Len(ds.sample_results)) :
            LET other == Reorder(ds.sample_results, p)
                agg == Aggregate(ds.metrics, other)
            IN /\ DOMAIN agg = DOMAIN ds.ret
               /\ \A m \in ds.metrics :
                     LET mine == MetricScores(ds.sample_results, m)
                         theirs == MetricScores(other, m)
                         c == Len(mine)
                         S == SumOverTasks(RealScoreTasks(m), m)
                         one == 2 ^ (MantissaBits * c)
                     IN /\ Len(theirs) = c
                        /\ \A x \in Scores : Occurrences(theirs, x) = Occurrences(mine, x)
                        /\ agg[m].kind = ds.ret[m].kind
                        /\ c <= 2 => agg[m] = ds.ret[m]
                        /\ c > 0 =>
                              Abs(agg[m].num * ds.ret[m].den - ds.ret[m].num * agg[m].den)
                                    * S[2] * c * one
                                 <= 2 * ((2 ^ MantissaBits + 1) ^ c - one)
                                      * S[1] * agg[m].den * ds.ret[m].den

\* C13 witness: three results were collected, not in submission order, and
\* another order of collecting them gives a different aggregate.
C13_Witness ==
    /\ ds.pc = "returned"
    /\ Len(ds.collected) = 3
    /\ ds.collected # <<<<ds.call, 1>>, <<ds.call, 2>>, <<ds.call, 3>>>>
    /\ \E p \in CollectionOrders(3) :
          Aggregate(ds.metrics, Reorder(ds.sample_results, p)) # ds.ret

NoMetricRaised ==
    \A t \in DOMAIN samples : \A m \in MetricNames : samples[t].mt[m].st # "raised"

SomeMetricPending ==
    \E t \in DOMAIN samples : \E m \in MetricNames : samples[t].mt[m].st = "pending"

\* C14: in a run where no metric computation raises, a started group
\* evaluation leads to its return with every sample's result collected; and
\* as long as a metric computation is pending, evaluate_dataset has not
\* returned, its group is not in the report, and main is at no later group.
C14_GroupEvaluationLiveness ==
    /\ []NoMetricRaised =>
          ((ds.pc = "collect") ~>
              (/\ ds.pc = "returned"
               /\ Range(ds.collected) = ds.tasks
               /\ Len(ds.sample_results) = ds.total_samples))
    /\ [](SomeMetricPending =>
             /\ ds.pc \in {"collect", "raised"}
             /\ \A t \in DOMAIN samples : t[1] = qi
             /\ Len(all_results) < qi
             /\ pc \in {"await_eval", "failed"})

\* C14 witness: one sample of a group has been collected while a metric
\* computation of another sample is still pending.
C14_Witness ==
    /\ ds.pc = "collect"
    /\ Len(ds.collected) >= 1
    /\ \E t \in ds.tasks : \E m \in ds.metrics : samples[t].mt[m].st = "pending"

\* The report holds exactly the first k question types, in order.
ReportHoldsFirst(k) ==
    /\ Len(all_results) = k
    /\ \A i \in 1..k : all_results[i].qtype = QuestionTypes[i]

\* C15: while the loop is at its qi-th group the report holds exactly the
\* first qi - 1 groups in the order type1..type4; after the loop it holds
\* exactly the four groups; the output file is written once, after the four
\* groups and only if an output path is configured, with the whole report;
\* a run that ends normally has printed the summary, with or without the
\* path; and no step changes or removes an entry the report already holds.
C15_ReportBuiltIncrementally ==
    /\ [](/\ pc \in {"loop", "await_eval"} => ReportHoldsFirst(qi - 1)
          /\ pc \in {"save", "summary", "done"} => ReportHoldsFirst(NumTypes)
          /\ \E k \in 0..NumTypes : ReportHoldsFirst(k)
          /\ output # <<>> =>
                /\ env.output_file
                /\ pc \in {"summary", "done"}
                /\ output = <<all_results>>
          /\ pc \in {"summary", "done"} /\ env.output_file => output # <<>>
          /\ summary => pc = "done"
          /\ pc = "done" => summary)
    /\ [][/\ Len(all_results') >= Len(all_results)
          /\ \A i \in 1..Len(all_results) : all_results'[i] = all_results[i]]_vars

\* C15 witness: a run without an output path ended normally, with a group
\* that had samples: four groups in the report, the summary printed, no file
\* written.
C15_Witness ==
    /\ pc = "done"
    /\ ~env.output_file
    /\ ReportHoldsFirst(NumTypes)
    /\ summary
    /\ output = <<>>
    /\ \E i \in 1..NumTypes : env.file_data[i].n > 0

\* C16: the mapping a sample's evaluation returned has exactly the requested
\* metric names as keys and holds, under each name, the score that metric's
\* own computation produced, whatever the order in which the computations
\* completed; the result the loop collected for the sample is that mapping.
C16_ScoresUnderOwnMetricName ==
    /\ \A t \in DOMAIN samples :
          samples[t].st \in {"returned", "collected"} =>
             LET keys == RequestedTasks(samples[t].metrics)
             IN /\ DOMAIN samples[t].result = Range(keys)
                /\ Range(samples[t].finished) = Range(keys)
                /\ Len(samples[t].finished) = Len(keys)
                /\ \A m \in Range(keys) :
                      /\ samples[t].mt[m].st = "done"
                      /\ samples[t].result[m] = samples[t].mt[m].score
    /\ \A i \in 1..Len(ds.collected) :
          ds.sample_results[i] = samples[ds.collected[i]].result

\* C16 witness: a sample's evaluation returned after its computations
\* completed in another order than they were submitted, with different
\* scores.
C16_Witness ==
    \E t \in DOMAIN samples :
       /\ samples[t].st \in {"returned", "collected"}
       /\ samples[t].finished # RequestedTasks(samples[t].metrics)
       /\ \E m1, m2 \in Range(samples[t].finished) :
             samples[t].mt[m1].score # samples[t].mt[m2].score

====
